---------------------------- MODULE Spec2Model ----------------------------
(***************************************************************************)
(* A model of src/cep-extension.js: the CEPExtension adapter (theme        *)
(* update, settings store, script bridge) and its pure helpers.            *)
(*                                                                         *)
(* JavaScript strings are sequences of one-character strings, so that      *)
(* formatting and parsing are computed character by character.  JavaScript *)
(* values are records tagged by the field t.                               *)
(***************************************************************************)
EXTENDS Integers, Sequences, FiniteSets, TLC

VARIABLES
    adobe_cep,     \* TRUE iff global.__adobe_cep__ is defined
    disk,          \* the file system: [dir, exists, data] of the settings file
    hostSkin,      \* the host's current appSkinInfo
    themeEvents,   \* theme-change notifications the host has yet to deliver
    sheet,         \* this.stylesheet.sheet: [hasAddRule, cssRules, log]
    phase,         \* "new" | "ready" | "threw": where the constructor got to
    supported,     \* this.supported
    settings,      \* this.settings
    listeners,     \* listeners registered for THEME_COLOR_CHANGED_EVENT
    initCalled,    \* TRUE iff this.init() has run
    fileRead,      \* TRUE iff cep.fs.readFile has been called
    lastSet,       \* history: per key, the value of the latest setProp call
    anySet,        \* history: TRUE iff setProp has been called
    thrown,        \* the exception the latest operation threw, or "none"
    calls,         \* history: the execute calls made, in order
    pendingGet,    \* $.get requests in flight, each with its closure
    pendingEval,   \* evalScript requests in flight, each with its closure
    execLog,       \* history per call: fetches started, texts submitted,
                   \* completions, callback invocations, errors reported
    hexIn,         \* the input of the colour functions (SpecHex)
    hexOut         \* their output (SpecHex)

vars == <<adobe_cep, disk, hostSkin, themeEvents, sheet, phase, supported,
          settings, listeners, initCalled, fileRead, lastSet, anySet, thrown,
          calls,
          pendingGet, pendingEval, execLog, hexIn, hexOut>>

(***************************************************************************)
(* Bounds of the model.                                                    *)
(***************************************************************************)
MaxThemeEvents == 2
MaxCalls == 2
MaxFetchCount == 3

(***************************************************************************)
(* JavaScript values.                                                      *)
(***************************************************************************)
JUndef == [t |-> "undefined"]
JNull == [t |-> "null"]
JNaN == [t |-> "NaN"]
JBool(b) == [t |-> "boolean", b |-> b]
JNum(n) == [t |-> "number", n |-> n]
JStr(s) == [t |-> "string", s |-> s]
JFn(name) == [t |-> "function", f |-> name]
\* An array: its elements and its other own properties, in insertion order.
JArr(a) == [t |-> "array", a |-> a, m |-> <<>>]
\* An object: its own properties as <<key, value>> pairs, in insertion order.
JObj(m) == [t |-> "object", m |-> m]

\* ToBoolean, as || applies it.
ToBoolean(v) ==
    CASE v.t \in {"undefined", "null", "NaN"} -> FALSE
      [] v.t = "boolean" -> v.b
      [] v.t = "number" -> v.n # 0
      [] v.t = "string" -> v.s # <<>>
      [] OTHER -> TRUE

\* a || b
Or(a, b) == IF ToBoolean(a) THEN a ELSE b

IsPrimitive(v) == v.t \in {"undefined", "null", "NaN", "boolean", "number", "string"}

(***************************************************************************)
(* Strings.                                                                *)
(***************************************************************************)
Digits == <<"0", "1", "2", "3", "4", "5", "6", "7", "8", "9">>
HexDigits == <<"0", "1", "2", "3", "4", "5", "6", "7", "8", "9",
               "a", "b", "c", "d", "e", "f">>

\* Number.prototype.toString(radix) of an integer n >= 0.
RECURSIVE NatToString(_, _)
NatToString(n, radix) ==
    IF n < radix THEN <<HexDigits[n + 1]>>
    ELSE NatToString(n \div radix, radix) \o <<HexDigits[(n % radix) + 1]>>

\* String(n) of an integer.
NumToString(n) ==
    IF n < 0 THEN <<"-">> \o NatToString(-n, 10) ELSE NatToString(n, 10)

StartsWithAt(s, i, lit) ==
    /\ i + Len(lit) - 1 <= Len(s)
    /\ \A j \in 1..Len(lit) : s[i + j - 1] = lit[j]

EndsWith(s, lit) ==
    /\ Len(lit) <= Len(s)
    /\ \A j \in 1..Len(lit) : s[Len(s) - Len(lit) + j] = lit[j]

(***************************************************************************)
(* Own properties of objects and arrays.                                   *)
(***************************************************************************)
HasOwn(m, k) == \E i \in 1..Len(m) : m[i][1] = k

GetOwn(m, k) == m[CHOOSE i \in 1..Len(m) : m[i][1] = k][2]

\* m[k] = v: overwrite in place, or append a new property.
PutOwn(m, k, v) ==
    IF HasOwn(m, k)
    THEN LET i == CHOOSE j \in 1..Len(m) : m[j][1] = k
         IN  SubSeq(m, 1, i - 1) \o << <<k, v>> >> \o SubSeq(m, i + 1, Len(m))
    ELSE Append(m, <<k, v>>)

(***************************************************************************)
(* JSON.stringify, for the values of the model: null, booleans, integers   *)
(* >= 0, strings without quotes or backslashes, arrays and objects of      *)
(* these.  undefined and functions are left out of objects and written as  *)
(* null in arrays; an array's non-index properties are not written.        *)
(***************************************************************************)
Serializable(v) == v.t \notin {"undefined", "function"}

RECURSIVE JSONstringify(_), StringifyElems(_), StringifyMembers(_, _)
JSONstringify(v) ==
    CASE v.t \in {"null", "NaN"} -> <<"n", "u", "l", "l">>
      [] v.t = "boolean" ->
            IF v.b THEN <<"t", "r", "u", "e">> ELSE <<"f", "a", "l", "s", "e">>
      [] v.t = "number" -> NumToString(v.n)
      [] v.t = "string" -> <<"\"">> \o v.s \o <<"\"">>
      [] v.t = "array" -> <<"[">> \o StringifyElems(v.a) \o <<"]">>
      [] v.t = "object" -> <<"{">> \o StringifyMembers(v.m, TRUE) \o <<"}">>

StringifyElems(a) ==
    IF a = <<>> THEN <<>>
    ELSE (IF Serializable(Head(a)) THEN JSONstringify(Head(a))
          ELSE <<"n", "u", "l", "l">>)
         \o (IF Tail(a) = <<>> THEN <<>> ELSE <<",">> \o StringifyElems(Tail(a)))

\* first: no member has been written yet, so none needs a comma before it.
StringifyMembers(m, first) ==
    IF m = <<>> THEN <<>>
    ELSE IF ~Serializable(Head(m)[2]) THEN StringifyMembers(Tail(m), first)
    ELSE (IF first THEN <<>> ELSE <<",">>)
         \o <<"\"">> \o Head(m)[1] \o <<"\"", ":">> \o JSONstringify(Head(m)[2])
         \o StringifyMembers(Tail(m), FALSE)

(***************************************************************************)
(* JSON.parse, for texts without white space, escapes, signs, fractions or *)
(* exponents (the model supplies no others).  ParseValue(s, i) reads one   *)
(* value of s from position i: [ok, v, i], i the position after the value. *)
(***************************************************************************)
ParseFail == [ok |-> FALSE, v |-> JNull, i |-> 0]
ParseOk(v, i) == [ok |-> TRUE, v |-> v, i |-> i]

DigitValue(c) == (CHOOSE d \in 1..10 : Digits[d] = c) - 1
IsDigit(c) == \E d \in 1..10 : Digits[d] = c

\* The position after the run of digits of s that starts at i.
RECURSIVE DigitsEnd(_, _)
DigitsEnd(s, i) ==
    IF i <= Len(s) /\ IsDigit(s[i]) THEN DigitsEnd(s, i + 1) ELSE i

RECURSIVE DigitsValue(_, _, _)
DigitsValue(s, i, j) ==
    IF j <= i THEN 0
    ELSE 10 * DigitsValue(s, i, j - 1) + DigitValue(s[j - 1])

ParseNumber(s, i) ==
    LET j == DigitsEnd(s, i)
    IN  IF j = i \/ (s[i] = "0" /\ j > i + 1) THEN ParseFail
        ELSE ParseOk(JNum(DigitsValue(s, i, j)), j)

\* The position of the quote that closes the string opened before i, or 0.
RECURSIVE StringEnd(_, _)
StringEnd(s, i) ==
    IF i > Len(s) \/ s[i] \in {"\\", "\n"} THEN 0
    ELSE IF s[i] = "\"" THEN i
    ELSE StringEnd(s, i + 1)

ParseString(s, i) ==
    IF i > Len(s) \/ s[i] # "\"" THEN ParseFail
    ELSE LET j == StringEnd(s, i + 1)
         IN  IF j = 0 THEN ParseFail
             ELSE ParseOk(JStr(SubSeq(s, i + 1, j - 1)), j + 1)

RECURSIVE ParseValue(_, _), ParseElems(_, _, _), ParseMembers(_, _, _)
ParseValue(s, i) ==
    IF i > Len(s) THEN ParseFail
    ELSE IF StartsWithAt(s, i, <<"n", "u", "l", "l">>) THEN ParseOk(JNull, i + 4)
    ELSE IF StartsWithAt(s, i, <<"t", "r", "u", "e">>) THEN ParseOk(JBool(TRUE), i + 4)
    ELSE IF StartsWithAt(s, i, <<"f", "a", "l", "s", "e">>)
         THEN ParseOk(JBool(FALSE), i + 5)
    ELSE IF IsDigit(s[i]) THEN ParseNumber(s, i)
    ELSE IF s[i] = "\"" THEN ParseString(s, i)
    ELSE IF s[i] = "[" THEN
         IF StartsWithAt(s, i + 1, <<"]">>) THEN ParseOk(JArr(<<>>), i + 2)
         ELSE ParseElems(s, i + 1, <<>>)
    ELSE IF s[i] = "{" THEN
         IF StartsWithAt(s, i + 1, <<"}">>) THEN ParseOk(JObj(<<>>), i + 2)
         ELSE ParseMembers(s, i + 1, <<>>)
    ELSE ParseFail

\* The elements of an array from position i on, acc those read so far.
ParseElems(s, i, acc) ==
    LET r == ParseValue(s, i)
    IN  IF ~r.ok THEN ParseFail
        ELSE IF StartsWithAt(s, r.i, <<"]">>)
             THEN ParseOk(JArr(Append(acc, r.v)), r.i + 1)
        ELSE IF StartsWithAt(s, r.i, <<",">>)
             THEN ParseElems(s, r.i + 1, Append(acc, r.v))
        ELSE ParseFail

\* The members of an object from position i on; a repeated key overwrites.
ParseMembers(s, i, acc) ==
    LET k == ParseString(s, i)
    IN  IF ~k.ok \/ ~StartsWithAt(s, k.i, <<":">>) THEN ParseFail
        ELSE LET r == ParseValue(s, k.i + 1)
             IN  IF ~r.ok THEN ParseFail
                 ELSE IF StartsWithAt(s, r.i, <<"}">>)
                      THEN ParseOk(JObj(PutOwn(acc, k.v.s, r.v)), r.i + 1)
                 ELSE IF StartsWithAt(s, r.i, <<",">>)
                      THEN ParseMembers(s, r.i + 1, PutOwn(acc, k.v.s, r.v))
                 ELSE ParseFail

\* JSON.parse(s): [ok, v], ok FALSE where JSON.parse throws a SyntaxError.
JSONparse(s) ==
    LET r == ParseValue(s, 1)
    IN  IF r.ok /\ r.i = Len(s) + 1 THEN r ELSE ParseFail

(***************************************************************************)
(* unserialize (lines 305-328).                                            *)
(***************************************************************************)
\* The text undefined is not told apart.
unserializeRaw(str) ==
    LET r == JSONparse(str)
    IN  IF r.ok THEN r.v ELSE JStr(str)

unserialize(str) ==
    IF str = <<"u", "n", "d", "e", "f", "i", "n", "e", "d">> THEN JUndef
    ELSE LET r == JSONparse(str)
         IN  IF r.ok THEN r.v ELSE JStr(str)

(***************************************************************************)
(* The colour functions (lines 188-238).  Channel values and deltas are    *)
(* integers in the model, on which Math.round changes nothing.             *)
(***************************************************************************)
MaxChannel == 255

\* isNaN(v): ToNumber(v) is NaN.
isNaN(v) == v.t \in {"undefined", "NaN"}

\* ToNumber of a delta that is not NaN.
ToNumber(v) == IF v.t = "number" THEN v.n ELSE 0

MathRound(x) == x

MathAbs(x) == IF x < 0 THEN -x ELSE x

\* No zero before a single digit.
valueToHexNoPad(value, delta) ==
    LET shifted == IF ~isNaN(delta) THEN value + ToNumber(delta) ELSE value
        clamped == IF shifted < 0 THEN 0
                   ELSE IF shifted > MaxChannel THEN MaxChannel
                   ELSE shifted
    IN  NatToString(MathRound(clamped), 16)

valueToHex(value, delta) ==
    LET shifted == IF ~isNaN(delta) THEN value + ToNumber(delta) ELSE value
        clamped == IF shifted < 0 THEN 0
                   ELSE IF shifted > MaxChannel THEN MaxChannel
                   ELSE shifted
        computedValue == NatToString(MathRound(clamped), 16)
    IN  IF Len(computedValue) = 1 THEN <<"0">> \o computedValue ELSE computedValue

colorToHex(color, delta) ==
    <<"#">> \o valueToHex(color.red, delta)
            \o valueToHex(color.green, delta)
            \o valueToHex(color.blue, delta)

\* The colour itself, not its reverse.
reverseColorSame(color, delta) == colorToHex(color, delta)

reverseColor(color, delta) ==
    colorToHex([red |-> MathAbs(MaxChannel - color.red),
                green |-> MathAbs(MaxChannel - color.green),
                blue |-> MathAbs(MaxChannel - color.blue)],
               delta)

(***************************************************************************)
(* The style sheet: the rules it holds, and a log of the primitives called *)
(* on it.  Both primitives add a rule; insertRule is given the rule as     *)
(* one text, "selector { declarations }", and the position to put it at.   *)
(***************************************************************************)
T_body == <<"b", "o", "d", "y">>

SheetAddRule(sh, selector, rule) ==
    [sh EXCEPT !.cssRules = Append(@, [selectorText |-> selector, style |-> rule]),
               !.log = Append(@, "addRule")]

\* The first position of character c in s, or 0.
RECURSIVE IndexOf(_, _, _)
IndexOf(s, c, i) ==
    IF i > Len(s) THEN 0 ELSE IF s[i] = c THEN i ELSE IndexOf(s, c, i + 1)

\* s without the spaces at its ends.
RECURSIVE Trim(_)
Trim(s) ==
    IF s = <<>> THEN s
    ELSE IF Head(s) = " " THEN Trim(Tail(s))
    ELSE IF s[Len(s)] = " " THEN Trim(SubSeq(s, 1, Len(s) - 1))
    ELSE s

\* What the engine makes of the text of one style rule.
ParseRule(text) ==
    LET open == IndexOf(text, "{", 1)
    IN  [selectorText |-> Trim(SubSeq(text, 1, open - 1)),
         style |-> Trim(SubSeq(text, open + 1, Len(text) - 1))]

SheetInsertRule(sh, text, index) ==
    [sh EXCEPT !.cssRules = SubSeq(@, 1, index) \o <<ParseRule(text)>>
                            \o SubSeq(@, index + 1, Len(@)),
               !.log = Append(@, "insertRule")]

\* p.addRule (lines 166-178)
addRule(sh, selector, rule) ==
    IF sh.hasAddRule THEN SheetAddRule(sh, selector, rule)
    ELSE IF sh.hasInsertRule
         THEN SheetInsertRule(sh, selector \o <<" ", "{", " ">> \o rule \o <<" ", "}">>,
                              Len(sh.cssRules))
    ELSE sh

\* p.update (lines 125-136)
update(sh, info) ==
    LET color == info.panelBackgroundColor.color
    IN  addRule(sh, T_body,
                <<"c", "o", "l", "o", "r", ":", " ">> \o reverseColor(color, JUndef)
                \o <<";">>
                \o <<"f", "o", "n", "t", "-", "s", "i", "z", "e", ":">>
                \o NumToString(info.baseFontSize) \o <<"p", "x", ";">>
                \o <<"b", "a", "c", "k", "g", "r", "o", "u", "n", "d", "-",
                     "c", "o", "l", "o", "r", ":">>
                \o colorToHex(color, JUndef))

(***************************************************************************)
(* The inputs of the model.                                                *)
(***************************************************************************)
T_undefined == <<"u", "n", "d", "e", "f", "i", "n", "e", "d">>

\* Property names.
Keys == {<<"k">>, <<"j">>}

\* The values setProp is given: two that are not falsy, and the falsy ones.
PropValues == {JNum(7), JStr(<<"a">>), JNum(0), JStr(<<>>), JBool(FALSE), JNull}

\* What the settings file may hold when the panel starts: nothing, the text
\* undefined, text that is not JSON, and JSON of each kind.
FileTexts == {<<>>, T_undefined, <<"{">>,
              <<"{", "}">>, <<"{", "\"", "k", "\"", ":", "1", "}">>,
              <<"5">>, <<"[", "1", "]">>, <<"n", "u", "l", "l">>,
              <<"\"", "a", "\"">>}

Color(r, g, b) == [red |-> r, green |-> g, blue |-> b]
Skin(c, size) == [panelBackgroundColor |-> [color |-> c], baseFontSize |-> size]
Skins == {Skin(Color(10, 20, 30), 10), Skin(Color(214, 214, 214), 11),
          Skin(Color(0, 255, 128), 9)}

\* A rule the style sheet holds before the panel adds any.
OtherRule == [selectorText |-> <<"p">>,
              style |-> <<"m", "a", "r", "g", "i", "n", ":", "0">>]

Never == [set |-> FALSE, v |-> JUndef]
WasSet(v) == [set |-> TRUE, v |-> v]

execVars == <<calls, pendingGet, pendingEval, execLog>>
hexVars == <<hexIn, hexOut>>
storeVars == <<settings, lastSet, anySet, fileRead>>
themeVars == <<hostSkin, themeEvents, sheet, listeners>>

(***************************************************************************)
(* The constructor (lines 12-99).                                          *)
(***************************************************************************)
\* No check of the host bridge.
CtorSupportedAlways == TRUE

\* line 32: global.__adobe_cep__ !== undefined
CtorSupported == adobe_cep

\* cep.fs.readFile(path).data: the text of the file, empty when there is none.
readFileData(d) == IF d.exists THEN d.data ELSE <<>>

\* line 67: unserialize(...) || {}
LoadSettings(d) == Or(unserialize(readFileData(d)), JObj(<<>>))

\* The properties a settings file left by an earlier run had set.
Loaded(v) ==
    [k \in Keys |-> IF v.t = "object" /\ HasOwn(v.m, k)
                    THEN WasSet(GetOwn(v.m, k)) ELSE Never]

CEPExtension ==
    /\ phase = "new"
    /\ supported' = CtorSupported
    /\ IF ~CtorSupported
       THEN /\ phase' = "threw"
            /\ thrown' = "unsupported"
            /\ UNCHANGED <<disk, storeVars, themeVars, initCalled>>
       ELSE /\ phase' = "ready"
            /\ disk' = [disk EXCEPT !.dir = TRUE]
            /\ fileRead' = TRUE
            /\ settings' = LoadSettings(disk)
            /\ lastSet' = Loaded(LoadSettings(disk))
            /\ anySet' = FALSE
            /\ listeners' = listeners + 1
            /\ sheet' = update(sheet, hostSkin)
            /\ initCalled' = TRUE
            /\ UNCHANGED <<hostSkin, themeEvents, thrown>>
    /\ UNCHANGED <<adobe_cep, execVars, hexVars>>

(***************************************************************************)
(* The settings store (lines 144-158).  The file is in strict mode: a      *)
(* property assignment on a primitive value throws a TypeError.            *)
(***************************************************************************)
\* obj[name], for the names of Keys (none is an index or a built-in name).
Get(obj, name) ==
    IF obj.t \in {"object", "array"} /\ HasOwn(obj.m, name)
    THEN GetOwn(obj.m, name) ELSE JUndef

\* obj[name] = value, on an object or an array.
Put(obj, name, value) == [obj EXCEPT !.m = PutOwn(@, name, value)]

writeFile(d, text) == [d EXCEPT !.exists = TRUE, !.data = text]

setProp(name, value) ==
    /\ phase = "ready"
    /\ lastSet' = [lastSet EXCEPT ![name] = WasSet(value)]
    /\ anySet' = TRUE
    /\ IF IsPrimitive(settings)
       THEN /\ thrown' = "TypeError"
            /\ UNCHANGED <<settings, disk>>
       ELSE /\ settings' = Put(settings, name, value)
            /\ disk' = writeFile(disk, JSONstringify(Put(settings, name, value)))
            /\ thrown' = "none"
    /\ UNCHANGED <<adobe_cep, phase, supported, fileRead, themeVars, initCalled,
                   execVars, hexVars>>

getProp(name) == Or(Get(settings, name), JNull)

(***************************************************************************)
(* Theme changes (lines 84-95).  The host changes its skin and notifies    *)
(* each listener; the listener reads the skin the host has by then.        *)
(***************************************************************************)
HostThemeChange(skin) ==
    /\ phase = "ready"
    /\ themeEvents.total < MaxThemeEvents
    /\ skin # hostSkin
    /\ hostSkin' = skin
    /\ themeEvents' = [pending |-> themeEvents.pending + listeners,
                       total |-> themeEvents.total + 1]
    /\ UNCHANGED <<adobe_cep, disk, sheet, phase, supported, storeVars, listeners,
                   initCalled, thrown, execVars, hexVars>>

ThemeListener ==
    /\ themeEvents.pending > 0
    /\ themeEvents' = [themeEvents EXCEPT !.pending = @ - 1]
    /\ sheet' = update(sheet, hostSkin)
    /\ UNCHANGED <<adobe_cep, disk, hostSkin, phase, supported, storeVars,
                   listeners, initCalled, thrown, execVars, hexVars>>

(***************************************************************************)
(* The specification of the settings store and the theme update.           *)
(***************************************************************************)
InitAdapter ==
    /\ phase = "new"
    /\ supported = FALSE
    /\ settings = JUndef
    /\ listeners = 0
    /\ initCalled = FALSE
    /\ fileRead = FALSE
    /\ lastSet = [k \in Keys |-> Never]
    /\ anySet = FALSE
    /\ thrown = "none"
    /\ themeEvents = [pending |-> 0, total |-> 0]

InitExec ==
    /\ calls = <<>>
    /\ pendingGet = {}
    /\ pendingEval = {}
    /\ execLog = <<>>

InitHex ==
    /\ hexIn = [color |-> Color(0, 0, 0), delta |-> JUndef]
    /\ hexOut = <<>>

NoFile(dir) == [dir |-> dir, exists |-> FALSE, data |-> <<>>]
FileWith(text) == [dir |-> TRUE, exists |-> TRUE, data |-> text]

Init ==
    /\ adobe_cep \in BOOLEAN
    /\ disk \in {NoFile(d) : d \in BOOLEAN} \cup {FileWith(text) : text \in FileTexts}
    /\ hostSkin \in Skins
    /\ sheet \in {[hasAddRule |-> a, hasInsertRule |-> TRUE,
                   cssRules |-> <<OtherRule>>, log |-> <<>>] : a \in BOOLEAN}
    /\ InitAdapter
    /\ InitExec
    /\ InitHex

Next ==
    \/ CEPExtension
    \/ \E name \in Keys, value \in PropValues : setProp(name, value)
    \/ \E skin \in Skins : HostThemeChange(skin)
    \/ ThemeListener

Spec == Init /\ [][Next]_vars

(***************************************************************************)
(* The settings store: claims C1, C2, C3.                                  *)
(***************************************************************************)
FalsyValues == {JNum(0), JStr(<<>>), JBool(FALSE), JNull}

\* What C1 says getProp(k) returns: the value last set for k (by this run, or
\* by the run that left the settings file) unless it is falsy, else null.
C1_Expected(k) ==
    IF lastSet[k].set /\ lastSet[k].v \notin FalsyValues THEN lastSet[k].v ELSE JNull

\* C1: after any sequence of setProp calls, getProp(k) is the value most
\* recently set for k when that value is not falsy, and null when k was never
\* set or the value most recently set is falsy.
C1_GetReturnsLastSet ==
    phase = "ready" => \A k \in Keys : getProp(k) = C1_Expected(k)

\* C2: once setProp has been called, the settings file holds the JSON text of
\* the whole settings map, and reading it back gives a map equal to it.
C2_FileMirrorsSettings ==
    (phase = "ready" /\ anySet) =>
        /\ disk.exists
        /\ disk.data = JSONstringify(settings)
        /\ unserialize(disk.data) = settings

\* C3: whatever the settings file held, the settings map is a JSON object from
\* construction on, and the empty object when the file was absent or was not
\* valid JSON.
C3_SettingsIsObject ==
    phase = "ready" =>
        /\ settings.t = "object"
        /\ (~anySet /\ (~disk.exists \/ ~JSONparse(disk.data).ok))
              => settings = JObj(<<>>)

(***************************************************************************)
(* The theme update: claim C6.                                             *)
(***************************************************************************)
\* The segments of s between the separators sep.
RECURSIVE Split(_, _)
Split(s, sep) ==
    LET i == IndexOf(s, sep, 1)
    IN  IF i = 0 THEN <<s>>
        ELSE <<SubSeq(s, 1, i - 1)>> \o Split(SubSeq(s, i + 1, Len(s)), sep)

\* The value of the declaration of property name in a style text, <<>> if none.
DeclValue(style, name) ==
    LET decls == Split(style, ";")
        named(d) == LET i == IndexOf(d, ":", 1)
                    IN  i > 0 /\ Trim(SubSeq(d, 1, i - 1)) = name
        hits == {n \in 1..Len(decls) : named(decls[n])}
    IN  IF Cardinality(hits) # 1 THEN <<>>
        ELSE LET d == decls[CHOOSE n \in hits : TRUE]
             IN  Trim(SubSeq(d, IndexOf(d, ":", 1) + 1, Len(d)))

HexValue(c) == (CHOOSE d \in 1..16 : HexDigits[d] = c) - 1
IsHexDigit(c) == \E d \in 1..16 : HexDigits[d] = c

\* Whether text is #rrggbb in lower-case hexadecimal, encoding colour c.
EncodesColor(text, c) ==
    /\ Len(text) = 7
    /\ text[1] = "#"
    /\ \A i \in 2..7 : IsHexDigit(text[i])
    /\ 16 * HexValue(text[2]) + HexValue(text[3]) = c.red
    /\ 16 * HexValue(text[4]) + HexValue(text[5]) = c.green
    /\ 16 * HexValue(text[6]) + HexValue(text[7]) = c.blue

\* Whether text is n in decimal followed by px.
EncodesPx(text, n) ==
    /\ Len(text) > 2
    /\ EndsWith(text, <<"p", "x">>)
    /\ \A i \in 1..(Len(text) - 2) : IsDigit(text[i])
    /\ DigitsValue(text, 1, Len(text) - 1) = n

\* The rule the update makes of the skin: text colour the reverse of the
\* background, font size the base size in px, background the background.
RuleCarries(rule, skin) ==
    LET c == skin.panelBackgroundColor.color
    IN  /\ rule.selectorText = T_body
        /\ EncodesColor(DeclValue(rule.style, <<"c", "o", "l", "o", "r">>),
                        Color(255 - c.red, 255 - c.green, 255 - c.blue))
        /\ EncodesPx(DeclValue(rule.style, <<"f", "o", "n", "t", "-", "s", "i", "z", "e">>),
                     skin.baseFontSize)
        /\ EncodesColor(DeclValue(rule.style,
                                  <<"b", "a", "c", "k", "g", "r", "o", "u", "n", "d",
                                    "-", "c", "o", "l", "o", "r">>), c)

\* A step that constructs the adapter on a supported host, or delivers a
\* theme-change notification.
UpdateStep ==
    \/ phase = "new" /\ phase' = "ready"
    \/ themeEvents'.pending < themeEvents.pending

\* C6: construction and every theme-change notification add exactly one rule
\* to the style sheet, a body rule carrying the colours and font size of the
\* skin the host has at that moment, through addRule when the sheet has it
\* and through insertRule otherwise; the rules already there, the settings
\* map (once loaded) and the settings file stay as they are; no other step
\* touches the style sheet.
C6_ThemeUpdate ==
    [][/\ UpdateStep =>
            /\ Len(sheet'.cssRules) = Len(sheet.cssRules) + 1
            /\ SubSeq(sheet'.cssRules, 1, Len(sheet.cssRules)) = sheet.cssRules
            /\ RuleCarries(sheet'.cssRules[Len(sheet'.cssRules)], hostSkin)
            /\ sheet'.log = Append(sheet.log, IF sheet.hasAddRule THEN "addRule"
                                              ELSE "insertRule")
            /\ disk'.exists = disk.exists /\ disk'.data = disk.data
            /\ phase = "ready" => settings' = settings
       /\ ~UpdateStep => sheet' = sheet]_vars

\* C6's case: a theme change delivered to a sheet that has no addRule.
C6_Witness ==
    /\ ~sheet.hasAddRule
    /\ themeEvents.total > 0 /\ themeEvents.pending = 0
    /\ Len(sheet.cssRules) = themeEvents.total + 2
    /\ sheet.log[Len(sheet.log)] = "insertRule"

(***************************************************************************)
(* Construction without the host bridge: claim C7.                         *)
(***************************************************************************)
\* C7: without the host bridge the constructor throws, and nothing of the
\* initialization happens: no directory made, no file read, no listener
\* registered, no rule added, init not called.
C7_UnsupportedAborts ==
    /\ []((~adobe_cep /\ phase # "new") =>
            /\ phase = "threw" /\ thrown = "unsupported"
            /\ ~fileRead /\ listeners = 0 /\ ~initCalled
            /\ sheet.log = <<>> /\ settings = JUndef)
    /\ [][~adobe_cep => disk' = disk /\ sheet' = sheet]_vars

\* C7's case: the constructor has thrown.
C7_Witness == ~adobe_cep /\ phase = "threw" /\ ~disk.dir

(***************************************************************************)
(* The script bridge (lines 247-296).                                      *)
(***************************************************************************)
LowerCase == {"a", "b", "c", "d", "e", "f", "g", "h", "i", "j", "k", "l", "m",
              "n", "o", "p", "q", "r", "s", "t", "u", "v", "w", "x", "y", "z"}
UpperCase == {"A", "B", "C", "D", "E", "F", "G", "H", "I", "J", "K", "L", "M",
              "N", "O", "P", "Q", "R", "S", "T", "U", "V", "W", "X", "Y", "Z"}
\* The character class [\/a-zA-Z0-9\-|_\.\%\?]
PathChars == LowerCase \cup UpperCase \cup {Digits[d] : d \in 1..10}
             \cup {"/", "-", "|", "_", ".", "%", "?"}

\* No text is a path.
IsScriptPathNever(script) == FALSE

\* line 259: /^([\/a-zA-Z0-9\-|_\.\%\?]+\.js(fl|x)?)$/.test(script).  The
\* characters of the suffix are in the class, so the text matches iff all of
\* it is in the class and it is longer than a suffix it ends with.
IsScriptPath(script) ==
    /\ \A i \in 1..Len(script) : script[i] \in PathChars
    /\ \E suffix \in {<<".", "j", "s">>, <<".", "j", "s", "f", "l">>,
                      <<".", "j", "s", "x">>} :
          Len(script) > Len(suffix) /\ EndsWith(script, suffix)

T_inline == <<"f", "(", ")">>
T_a_js == <<"a", ".", "j", "s">>
T_b_jsx == <<"b", ".", "j", "s", "x">>
T_l_jsfl == <<"l", ".", "j", "s", "f", "l">>
T_dot_js == <<".", "j", "s">>

\* What $.get fetches: a.js holds a script, b.jsx holds the path of a.js,
\* l.jsfl holds its own path.
FileText(url) ==
    CASE url = T_a_js -> T_inline
      [] url = T_b_jsx -> T_a_js
      [] url = T_l_jsfl -> T_l_jsfl
      [] OTHER -> <<>>

\* The script arguments of the model: inline text, three paths, and .js,
\* which the pattern does not match (nothing is before the suffix).
Scripts == {T_inline, T_a_js, T_b_jsx, T_l_jsfl, T_dot_js}
\* The second and third arguments: none; a function as second argument;
\* arguments and a callback; falsy arguments and no callback.
ArgPairs == {<<JUndef, JUndef>>, <<JFn("cb1"), JUndef>>,
             <<JArr(<<JNum(1)>>), JFn("cb2")>>, <<JNull, JUndef>>}
\* What the host engine answers.
Responses == {T_undefined, <<"{">>, <<"{", "\"", "k", "\"", ":", "1", "}">>}

NoLog == [fetches |-> 0, submits |-> <<>>, completions |-> 0,
          callbacks |-> <<>>, errors |-> 0]

Min(a, b) == IF a < b THEN a ELSE b

\* The guard is not there.
ExecuteGuardAlways(sup) == TRUE

\* line 256: if (this.supported)
ExecuteGuard(sup) == sup

\* The arguments are not declared.
WithArgsNever(script, args) == script

\* lines 271-274
WithArgs(script, args) ==
    IF args # JUndef
    THEN <<"v", "a", "r", " ", "a", "r", "g", "s", "=">> \o JSONstringify(args)
         \o <<";", "\n">> \o script
    ELSE script

\* line 286: callback.call(self, ...)
CallbackReceiver == "adapter"

\* The histories with that of call c, the latest call at most, set to log.
SetLog(c, log) ==
    IF c > Len(execLog) THEN Append(execLog, log) ELSE [execLog EXCEPT ![c] = log]

\* Lines 256-295, for call c: the sets of requests in flight were gets and
\* evals before, and log is the call's history so far.
ExecuteBody(c, script, args, callback, gets, evals, log) ==
    IF ExecuteGuard(supported)
    THEN IF IsScriptPath(script)
         THEN /\ pendingGet' = gets \cup {[call |-> c, url |-> script, args |-> args,
                                           callback |-> callback]}
              /\ pendingEval' = evals
              /\ execLog' = SetLog(c, [log EXCEPT !.fetches = Min(@ + 1, MaxFetchCount)])
         ELSE /\ pendingEval' = evals \cup {[call |-> c, script |-> WithArgs(script, args),
                                             callback |-> callback]}
              /\ pendingGet' = gets
              /\ execLog' = SetLog(c, [log EXCEPT !.submits =
                                                Append(@, WithArgs(script, args))])
    ELSE /\ pendingGet' = gets
         /\ pendingEval' = evals
         /\ execLog' = SetLog(c, [log EXCEPT !.errors = @ + 1])

\* p.execute: a call by the panel.  The adapter is one whose constructor
\* finished, or one whose constructor threw after setting supported to false.
execute(script, second, third) ==
    /\ phase \in {"ready", "threw"}
    /\ Len(calls) < MaxCalls
    /\ LET c == Len(calls) + 1
           isFn == second.t = "function"
           callback == IF isFn THEN second ELSE third
           args == IF isFn THEN JUndef ELSE second
       IN  /\ calls' = Append(calls, [script |-> script, second |-> second,
                                      third |-> third, supported |-> supported])
           /\ ExecuteBody(c, script, args, callback, pendingGet, pendingEval, NoLog)
    /\ UNCHANGED <<adobe_cep, disk, phase, supported, storeVars, themeVars,
                   initCalled, thrown, hexVars>>

\* lines 262-266: a $.get of call c succeeds, and execute runs on its text.
FetchDone(c) ==
    /\ \E p \in pendingGet :
          /\ p.call = c
          /\ ExecuteBody(c, FileText(p.url), p.args, p.callback,
                         pendingGet \ {p}, pendingEval, execLog[c])
    /\ UNCHANGED <<adobe_cep, disk, phase, supported, storeVars, themeVars,
                   initCalled, thrown, calls, hexVars>>

\* lines 280-288: the host engine answers the script of call c.
EvalDone(c) ==
    /\ \E p \in pendingEval, response \in Responses :
          /\ p.call = c
          /\ pendingEval' = pendingEval \ {p}
          /\ execLog' = [execLog EXCEPT ![c] =
                [@ EXCEPT !.completions = @ + 1,
                          !.callbacks =
                              IF p.callback # JUndef
                              THEN Append(@, [fn |-> p.callback,
                                              receiver |-> CallbackReceiver,
                                              response |-> response,
                                              value |-> unserialize(response)])
                              ELSE @]]
    /\ UNCHANGED <<adobe_cep, disk, phase, supported, storeVars, themeVars,
                   initCalled, thrown, calls, pendingGet, hexVars>>

InitSpecExec ==
    /\ adobe_cep \in BOOLEAN
    /\ disk = NoFile(FALSE)
    /\ hostSkin = Skin(Color(10, 20, 30), 10)
    /\ sheet = [hasAddRule |-> TRUE, hasInsertRule |-> TRUE,
                cssRules |-> <<OtherRule>>, log |-> <<>>]
    /\ InitAdapter
    /\ InitExec
    /\ InitHex

NextExec ==
    \/ CEPExtension
    \/ \E script \in Scripts, pair \in ArgPairs : execute(script, pair[1], pair[2])
    \/ \E c \in 1..MaxCalls : FetchDone(c)
    \/ \E c \in 1..MaxCalls : EvalDone(c)

SpecExec == InitSpecExec /\ [][NextExec]_vars

\* The calls of the specification with fairness: whether a call gets to
\* submit does not depend on its arguments, so two pairs stand for all.
FairArgPairs == {<<JUndef, JUndef>>, <<JArr(<<JNum(1)>>), JFn("cb2")>>}

NextExecFair ==
    \/ CEPExtension
    \/ \E script \in Scripts, pair \in FairArgPairs :
          execute(script, pair[1], pair[2])
    \/ \E c \in 1..MaxCalls : FetchDone(c)
    \/ \E c \in 1..MaxCalls : EvalDone(c)

\* Every fetch and every evaluation in flight completes.
SpecExecFair ==
    /\ InitSpecExec
    /\ [][NextExecFair]_vars
    /\ \A c \in 1..MaxCalls : WF_vars(FetchDone(c)) /\ WF_vars(EvalDone(c))

(***************************************************************************)
(* The script bridge: claims C4, C5, C8, C10.                              *)
(***************************************************************************)
\* The texts of the model that match the file-path pattern.
PathTexts == {T_a_js, T_b_jsx, T_l_jsfl}

\* The declaration C4 says is put before the script, per second argument.
C4_Prefix(second) ==
    CASE second = JNull ->
            <<"v", "a", "r", " ", "a", "r", "g", "s", "=",
              "n", "u", "l", "l", ";", "\n">>
      [] second = JArr(<<JNum(1)>>) ->
            <<"v", "a", "r", " ", "a", "r", "g", "s", "=",
              "[", "1", "]", ";", "\n">>
      [] OTHER -> <<>>

\* The fetches a script takes before a text that is no path is reached, and
\* that text: none when the fetched texts are paths for ever.
ChainOf(script) ==
    CASE script = T_a_js -> [resolves |-> TRUE, fetches |-> 1, text |-> T_inline]
      [] script = T_b_jsx -> [resolves |-> TRUE, fetches |-> 2, text |-> T_inline]
      [] script = T_l_jsfl -> [resolves |-> FALSE, fetches |-> 0, text |-> <<>>]
      [] OTHER -> [resolves |-> TRUE, fetches |-> 0, text |-> script]

HasPendingGet(c) == \E p \in pendingGet : p.call = c
HasPendingEval(c) == \E p \in pendingEval : p.call = c

\* C4 as claimed: the text submitted for a call on a supported host is the
\* script, or for a script that is a path the contents of that file, after
\* the fetch, with the args declaration before it exactly when args were given.
C4_SubmitsFileContents ==
    \A c \in 1..Len(calls) :
        (calls[c].supported /\ execLog[c].submits # <<>>) =>
            /\ ~HasPendingGet(c)
            /\ execLog[c].submits =
                  <<C4_Prefix(calls[c].second)
                    \o (IF calls[c].script \in PathTexts
                        THEN FileText(calls[c].script) ELSE calls[c].script)>>

\* C4 as amended: the text submitted is the script, or for a script that is a
\* path the first text that is no path in the chain of fetches that starts at
\* it (the contents of the file, unless they are a path again, which is
\* fetched in turn); nothing is submitted before the fetches of the chain have
\* completed; the args declaration is before the text exactly once when args
\* were given, and not at all otherwise.
C4_SubmitsChainEnd ==
    \A c \in 1..Len(calls) :
        (calls[c].supported /\ execLog[c].submits # <<>>) =>
            /\ ~HasPendingGet(c)
            /\ ChainOf(calls[c].script).resolves
            /\ execLog[c].fetches = ChainOf(calls[c].script).fetches
            /\ execLog[c].submits =
                  <<C4_Prefix(calls[c].second) \o ChainOf(calls[c].script).text>>

\* C4's case: a path given with arguments has been fetched and submitted, and
\* so has an inline script given a function as second argument.
C4_Witness ==
    /\ Len(calls) = 2
    /\ calls[1].script = T_a_js /\ calls[1].second = JArr(<<JNum(1)>>)
    /\ calls[2].script = T_inline /\ calls[2].second.t = "function"
    /\ execLog[1].submits # <<>> /\ execLog[2].submits # <<>>

\* What C5 says the callback is given, per response.
C5_Value(response) ==
    CASE response = T_undefined -> JUndef
      [] response = <<"{">> -> JStr(<<"{">>)
      [] response = <<"{", "\"", "k", "\"", ":", "1", "}">> ->
            JObj(<< <<<<"k">>, JNum(1)>> >>)

C5_Callback(c) ==
    IF calls[c].second.t = "function" THEN calls[c].second ELSE calls[c].third

\* C5: a call's callback is invoked only on a completion of that call's
\* script, once per completion, with the adapter as receiver and the
\* deserialized response of that completion (absent for undefined, the parsed
\* value for JSON, the raw text otherwise), whatever the order in which the
\* calls in flight complete; without a callback the completion is ignored.
C5_CallbackGetsOwnResponse ==
    \A c \in 1..Len(calls) :
        /\ execLog[c].completions <= Len(execLog[c].submits)
        /\ execLog[c].completions + (IF HasPendingEval(c) THEN 1 ELSE 0)
              = Len(execLog[c].submits)
        /\ IF C5_Callback(c) = JUndef THEN execLog[c].callbacks = <<>>
           ELSE /\ Len(execLog[c].callbacks) = execLog[c].completions
                /\ \A i \in 1..Len(execLog[c].callbacks) :
                      LET cb == execLog[c].callbacks[i]
                      IN  /\ cb.fn = C5_Callback(c)
                          /\ cb.receiver = "adapter"
                          /\ cb.value = C5_Value(cb.response)

\* C5's case: the second call completed with undefined while the first, made
\* with another callback, is still being evaluated.
C5_Witness ==
    /\ Len(calls) = 2
    /\ HasPendingEval(1) /\ C5_Callback(1) = JFn("cb2")
    /\ C5_Callback(2) = JFn("cb1")
    /\ execLog[2].completions = 1
    /\ Len(execLog[2].callbacks) = 1
    /\ execLog[2].callbacks[1].response = T_undefined

\* C8: execute on an adapter whose supported flag is false reports one error
\* and does nothing else: it starts no fetch, submits nothing to the host
\* engine, and the callback is never invoked.
C8_UnsupportedExecute ==
    \A c \in 1..Len(calls) :
        ~calls[c].supported =>
            /\ execLog[c] = [NoLog EXCEPT !.errors = 1]
            /\ ~HasPendingGet(c) /\ ~HasPendingEval(c)

\* C8's case: a path and an inline script, each with a callback, executed on
\* an adapter that is not supported.
C8_Witness ==
    /\ Len(calls) = 2
    /\ ~calls[1].supported /\ ~calls[2].supported
    /\ calls[1].script = T_a_js /\ calls[1].third.t = "function"
    /\ calls[2].script = T_inline /\ calls[2].second.t = "function"

\* Call c has been made, on a supported host.
MadeSupported(c) == IF c <= Len(calls) THEN calls[c].supported ELSE FALSE
\* Call c has been made, on a supported host, and its chain of fetches ends.
MadeResolving(c) ==
    IF c <= Len(calls)
    THEN calls[c].supported /\ ChainOf(calls[c].script).resolves
    ELSE FALSE
\* Call c has submitted exactly one script.
SubmittedOne(c) == IF c <= Len(calls) THEN Len(execLog[c].submits) = 1 ELSE FALSE

\* C10 as claimed: under fair completion, every execute call on a supported
\* host eventually submits exactly one script, after at most one fetch.
C10_OneFetchThenSubmit ==
    /\ [](\A c \in 1..Len(calls) :
            calls[c].supported =>
                Len(execLog[c].submits) <= 1 /\ execLog[c].fetches <= 1)
    /\ \A c \in 1..MaxCalls :
          MadeSupported(c) ~> SubmittedOne(c)

\* C10 as amended: under fair completion, every execute call on a supported
\* host whose chain of fetched texts reaches a text that is no path eventually
\* submits exactly one script, after one fetch for each path in the chain; a
\* call whose fetched texts are paths for ever never submits.
C10_ChainThenSubmit ==
    /\ [](\A c \in 1..Len(calls) :
            calls[c].supported =>
                /\ Len(execLog[c].submits) <= 1
                /\ execLog[c].submits # <<>> =>
                      /\ ChainOf(calls[c].script).resolves
                      /\ execLog[c].fetches = ChainOf(calls[c].script).fetches)
    /\ \A c \in 1..MaxCalls :
          MadeResolving(c) ~> SubmittedOne(c)

\* C10's case: a script submitted after two fetches, beside a call that keeps
\* fetching.
C10_Witness ==
    /\ Len(calls) = 2
    /\ calls[1].script = T_b_jsx /\ calls[1].supported
    /\ Len(execLog[1].submits) = 1 /\ execLog[1].fetches = 2
    /\ calls[2].script = T_l_jsfl /\ execLog[2].fetches = MaxFetchCount

(***************************************************************************)
(* The colour functions on their own: claim C9.                            *)
(***************************************************************************)
\* The deltas of the model: absent, NaN, and integers on both sides of the
\* range of a channel.
HexDeltas == {JUndef, JNaN} \cup
             {JNum(d) : d \in {-256, -255, -16, -1, 0, 1, 15, 255, 256}}

InitSpecHex ==
    /\ adobe_cep = TRUE
    /\ disk = NoFile(FALSE)
    /\ hostSkin = Skin(Color(10, 20, 30), 10)
    /\ sheet = [hasAddRule |-> TRUE, hasInsertRule |-> TRUE,
                cssRules |-> <<OtherRule>>, log |-> <<>>]
    /\ InitAdapter
    /\ InitExec
    /\ hexIn \in {[color |-> Color(r, g, b), delta |-> d] :
                    r \in 0..MaxChannel, g \in {0, 10, 255}, b \in {0, 255},
                    d \in HexDeltas}
    /\ hexOut = <<>>

ApplyColorToHex ==
    /\ hexOut = <<>>
    /\ hexOut' = colorToHex(hexIn.color, hexIn.delta)
    /\ UNCHANGED <<adobe_cep, disk, phase, supported, storeVars, themeVars,
                   initCalled, thrown, execVars, hexIn>>

SpecHex == InitSpecHex /\ [][ApplyColorToHex]_vars

\* The channel value C9 says is encoded: the value plus the delta, held to
\* the range 0..255; the value itself when the delta is absent or NaN.
C9_Channel(v, delta) ==
    LET sum == IF delta.t = "number" THEN v + delta.n ELSE v
    IN  IF sum < 0 THEN 0 ELSE IF sum > 255 THEN 255 ELSE sum

\* C9: the hex encoding of a colour with channels in 0..255 and an integer or
\* absent delta is # and three pairs of lower-case hexadecimal digits that
\* encode red, green and blue, each plus the delta and held to 0..255;
\* (255,0,0) gives #ff0000 and (0,0,0) gives #000000.
C9_HexEncoding ==
    hexOut # <<>> =>
        /\ EncodesColor(hexOut, Color(C9_Channel(hexIn.color.red, hexIn.delta),
                                      C9_Channel(hexIn.color.green, hexIn.delta),
                                      C9_Channel(hexIn.color.blue, hexIn.delta)))
        /\ hexIn = [color |-> Color(255, 0, 0), delta |-> JUndef]
              => hexOut = <<"#", "f", "f", "0", "0", "0", "0">>
        /\ hexIn = [color |-> Color(0, 0, 0), delta |-> JUndef]
              => hexOut = <<"#", "0", "0", "0", "0", "0", "0">>

\* C9's case: a sum above 255 in one channel and a single digit in another.
C9_Witness ==
    /\ hexIn = [color |-> Color(250, 10, 0), delta |-> JNum(15)]
    /\ hexOut = <<"#", "f", "f", "1", "9", "0", "f">>

=============================================================================
